---- MODULE Spec2Model ----
\* Model of the chat module in src/src/lib.rs: the `user` and `message` tables
\* and the five reducers (init, set_name, send_message, client_connected,
\* identity_disconnected).  Every reducer invocation is one atomic step.
EXTENDS Integers, Sequences, FiniteSets, TLC

\* ---------------------------------------------------------------- bounds
\* Number of reducer invocations explored (the store clock stops there).
MaxTime == 5
\* Number of client identities besides the administrator.
MaxClients == 2

\* ------------------------------------------------------------ identities
\* The administrator's identity as written in the source: 64 hex digits,
\* c2009546b62e8bf62a4b1387664842c54821f56214e6e6897021091f3f5a053f
admin_hex_id ==
    << 12,2, 0,0, 9,5, 4,6, 11,6, 2,14, 8,11, 15,6,
       2,10, 4,11, 1,3, 8,7, 6,6, 4,8, 4,2, 12,5,
       4,8, 2,1, 15,5, 6,2, 1,4, 14,6, 14,6, 8,9,
       7,0, 2,1, 0,9, 1,15, 3,15, 5,10, 0,5, 3,15 >>

IdentityBytes == 32

\* Option<T>: None or Some(x)
None == << >>
Some(x) == << x >>

\* Identity::from_hex: two hex digits per byte, exactly 32 bytes, else no value
from_hex(h) ==
    IF Len(h) = 2 * IdentityBytes /\ \A i \in 1..Len(h) : h[i] \in 0..15
    THEN Some([i \in 1..IdentityBytes |-> 16 * h[2 * i - 1] + h[2 * i]])
    ELSE None

AdminIdentity == from_hex(admin_hex_id)[1]

ClientIdentity == { [i \in 1..IdentityBytes |-> k] : k \in 1..MaxClients }

Identity == {AdminIdentity} \cup ClientIdentity

\* Strings a client may pass as a name or a message text
String == {"", "hi", "hello"}

\* --------------------------------------------------------------- results
\* Result<(), String>
Ok == <<"Ok">>
Err(reason) == <<"Err", reason>>

ErrUnauthorized == "Unauthorized user attempted to perform an action"
ErrUnknown == "Validation failed: Unknown user"
ErrEmptyName == "Names must not be empty"
ErrEmptyMessage == "Messages must not be empty"
ErrSetNameUnknown == "Cannot set name for unknown user"

\* ----------------------------------------------------------------- state
VARIABLES
    user,       \* the `user` table: a set of User rows
    message,    \* the `message` table: Message rows in insertion order
    now,        \* the store clock; ctx.timestamp of the next invocation
    published,  \* TRUE once the init reducer has run
    call,       \* the last reducer invocation: its context, argument and result
    open,       \* per identity: client_connected events minus identity_disconnected events
    scenario    \* progress of the run so far along the end-to-end scenario

vars == <<user, message, now, published, call, open, scenario>>

NoCall == [reducer |-> "none", sender |-> AdminIdentity, arg |-> "",
           timestamp |-> 0, result |-> Ok]

Call(reducer, sender, arg, result) ==
    [reducer |-> reducer, sender |-> sender, arg |-> arg,
     timestamp |-> now, result |-> result]

\* The transport's events for one identity: a connect opens a connection, a
\* disconnect closes one
Opened(sender) == [open EXCEPT ![sender] = @ + 1]
Closed(sender) == [open EXCEPT ![sender] = @ - 1]

\* The end-to-end scenario: bootstrap; a new identity B connects; B sends
\* "hi"; the administrator sends "hello".  step counts the events of the run
\* so far when they are exactly the scenario's first events, and is -1 once
\* the run has left the scenario.
NoScenario == [step |-> 0, B |-> AdminIdentity]
OffScenario == [step |-> -1, B |-> AdminIdentity]

Scenario(reducer, sender, arg) ==
    IF scenario.step = 0 /\ reducer = "init"
    THEN [step |-> 1, B |-> AdminIdentity]
    ELSE IF scenario.step = 1 /\ reducer = "client_connected"
            /\ sender # AdminIdentity
    THEN [step |-> 2, B |-> sender]
    ELSE IF scenario.step = 2 /\ reducer = "send_message"
            /\ sender = scenario.B /\ arg = "hi"
    THEN [step |-> 3, B |-> scenario.B]
    ELSE IF scenario.step = 3 /\ reducer = "send_message"
            /\ sender = AdminIdentity /\ arg = "hello"
    THEN [step |-> 4, B |-> scenario.B]
    ELSE OffScenario

\* ------------------------------------------------------- table operations
\* ctx.db.user().identity().find(id)
find(table, id) ==
    IF \E r \in table : r.identity = id
    THEN Some(CHOOSE r \in table : r.identity = id)
    ELSE None

\* ctx.db.user().insert(row): the primary key is unique; a violation aborts
\* the transaction, so nothing is written
insert(table, row) ==
    IF \E r \in table : r.identity = row.identity
    THEN table
    ELSE table \cup {row}

\* variant: the new row is written without removing the old one
update_keep(table, row) == table \cup {row}

\* ctx.db.user().identity().update(row): replace the row with that key
update(table, row) ==
    (table \ {r \in table : r.identity = row.identity}) \cup {row}

\* ------------------------------------------------------------------ rows
\* variant: the administrator is created offline
AdminUser_offline(identity) ==
    [identity |-> identity, name |-> None, online |-> FALSE,
     authorized |-> TRUE, dummy_join |-> TRUE]

AdminUser(identity) ==
    [identity |-> identity, name |-> None, online |-> TRUE,
     authorized |-> TRUE, dummy_join |-> TRUE]

\* variant: a first connect creates an authorized row
NewUser_authorized(identity) ==
    [identity |-> identity, name |-> None, online |-> TRUE,
     authorized |-> TRUE, dummy_join |-> TRUE]

\* variant: a first connect creates an offline row
NewUser_offline(identity) ==
    [identity |-> identity, name |-> None, online |-> FALSE,
     authorized |-> FALSE, dummy_join |-> TRUE]

NewUser(identity) ==
    [identity |-> identity, name |-> None, online |-> TRUE,
     authorized |-> FALSE, dummy_join |-> TRUE]

\* variant: the renamed row is rebuilt and marked online, not copied
RenamedUser_online(row, name) ==
    [row EXCEPT !.name = Some(name), !.online = TRUE]

RenamedUser(row, name) == [row EXCEPT !.name = Some(name)]

\* variant: the returning user's row is rebuilt without its name
ConnectedUser_unnamed(row) ==
    [row EXCEPT !.online = TRUE, !.name = None]

ConnectedUser(row) == [row EXCEPT !.online = TRUE]

DisconnectedUser(row) == [row EXCEPT !.online = FALSE]

\* variant: the message is stamped with the epoch, not the call's timestamp
NewMessage_epoch(sender, text, timestamp) ==
    [sender |-> sender, text |-> text, sent |-> 0, dummy_join |-> TRUE]

NewMessage(sender, text, timestamp) ==
    [sender |-> sender, text |-> text, sent |-> timestamp, dummy_join |-> TRUE]

\* ------------------------------------------------------------ validation
\* variant: the emptiness test never fires
is_empty_never(s) == Len(s) < 0

is_empty(s) == Len(s) = 0

\* variant: any known caller passes, authorized or not
validate_identity_known(table, sender) ==
    IF find(table, sender) # None THEN Ok ELSE Err(ErrUnknown)

\* variant: a caller without a row passes
validate_identity_open(table, sender) ==
    LET found == find(table, sender) IN
    IF found # None /\ ~found[1].authorized THEN Err(ErrUnauthorized) ELSE Ok

validate_identity(table, sender) ==
    LET found == find(table, sender) IN
    IF found # None /\ found[1].authorized THEN Ok
    ELSE IF found # None THEN Err(ErrUnauthorized)
    ELSE Err(ErrUnknown)

validate_name(name) ==
    IF is_empty(name) THEN Err(ErrEmptyName) ELSE Ok

\* variant: the empty text is accepted
validate_message_any(text) == Ok

validate_message(text) ==
    IF is_empty(text) THEN Err(ErrEmptyMessage) ELSE Ok

\* ------------------------------------------------------------ visibility
\* variant: every User row is visible to every observer
ACCOUNT_FILTER_all(users, sender) == users

\* SELECT * FROM user WHERE identity = :sender
ACCOUNT_FILTER(users, sender) == {u \in users : u.identity = sender}

\* variant: the observer's authorization is not required
MESSAGE_FILTER_open(users, messages, sender) ==
    [i \in 1..Len(messages) |->
        Cardinality({u \in users : /\ u.dummy_join = messages[i].dummy_join
                                   /\ u.identity = sender})]

\* variant: the join is on the message's sender and asks for the sender's
\* authorization
MESSAGE_FILTER_sender(users, messages, sender) ==
    [i \in 1..Len(messages) |->
        Cardinality({u \in users : /\ u.identity = messages[i].sender
                                   /\ u.authorized = TRUE})]

\* SELECT m.* FROM message m JOIN user u ON u.dummy_join = m.dummy_join
\* WHERE u.authorized = true AND u.identity = :sender
\* The result has one row per joined pair: for each Message row, in insertion
\* order, the number of times it is selected.
MESSAGE_FILTER(users, messages, sender) ==
    [i \in 1..Len(messages) |->
        Cardinality({u \in users : /\ u.dummy_join = messages[i].dummy_join
                                   /\ u.authorized = TRUE
                                   /\ u.identity = sender})]

\* ------------------------------------------------------------------ Init
Init ==
    /\ user = {}
    /\ message = << >>
    /\ now = 0
    /\ published = FALSE
    /\ call = NoCall
    /\ open = [id \in Identity |-> 0]
    /\ scenario = NoScenario

\* -------------------------------------------------------------- reducers
\* #[reducer(init)]: runs once, when the module is first published
init(sender) ==
    /\ ~published
    /\ now < MaxTime
    /\ from_hex(admin_hex_id) # None
    /\ user' = insert(user, AdminUser(from_hex(admin_hex_id)[1]))
    /\ published' = TRUE
    /\ now' = now + 1
    /\ call' = Call("init", sender, "", Ok)
    /\ scenario' = Scenario("init", sender, "")
    /\ UNCHANGED <<message, open>>

\* variant: the row is written before the name is validated
set_name_eager(sender, name) ==
    /\ published
    /\ now < MaxTime
    /\ now' = now + 1
    /\ LET found == find(user, sender) IN
       IF validate_identity(user, sender) # Ok
       THEN /\ call' = Call("set_name", sender, name, validate_identity(user, sender))
            /\ UNCHANGED user
       ELSE /\ user' = update(user, RenamedUser(found[1], name))
            /\ call' = Call("set_name", sender, name, validate_name(name))
    /\ scenario' = Scenario("set_name", sender, name)
    /\ UNCHANGED <<message, published, open>>

set_name(sender, name) ==
    /\ published
    /\ now < MaxTime
    /\ now' = now + 1
    /\ LET found == find(user, sender) IN
       IF validate_identity(user, sender) # Ok
       THEN /\ call' = Call("set_name", sender, name, validate_identity(user, sender))
            /\ UNCHANGED user
       ELSE IF found # None
       THEN IF validate_name(name) # Ok
            THEN /\ call' = Call("set_name", sender, name, validate_name(name))
                 /\ UNCHANGED user
            ELSE /\ user' = update(user, RenamedUser(found[1], name))
                 /\ call' = Call("set_name", sender, name, Ok)
       ELSE /\ call' = Call("set_name", sender, name, Err(ErrSetNameUnknown))
            /\ UNCHANGED user
    /\ scenario' = Scenario("set_name", sender, name)
    /\ UNCHANGED <<message, published, open>>

\* variant: a sender's new message replaces that sender's earlier ones
send_message_replace(sender, text) ==
    /\ published
    /\ now < MaxTime
    /\ now' = now + 1
    /\ IF validate_identity(user, sender) # Ok
       THEN /\ call' = Call("send_message", sender, text, validate_identity(user, sender))
            /\ UNCHANGED message
       ELSE IF validate_message(text) # Ok
       THEN /\ call' = Call("send_message", sender, text, validate_message(text))
            /\ UNCHANGED message
       ELSE /\ message' = Append(SelectSeq(message, LAMBDA m : m.sender # sender),
                                 NewMessage(sender, text, now))
            /\ call' = Call("send_message", sender, text, Ok)
    /\ scenario' = Scenario("send_message", sender, text)
    /\ UNCHANGED <<user, published, open>>

\* variant: the caller's identity is not validated
send_message_unvalidated(sender, text) ==
    /\ published
    /\ now < MaxTime
    /\ now' = now + 1
    /\ IF validate_message(text) # Ok
       THEN /\ call' = Call("send_message", sender, text, validate_message(text))
            /\ UNCHANGED message
       ELSE /\ message' = Append(message, NewMessage(sender, text, now))
            /\ call' = Call("send_message", sender, text, Ok)
    /\ scenario' = Scenario("send_message", sender, text)
    /\ UNCHANGED <<user, published, open>>

send_message(sender, text) ==
    /\ published
    /\ now < MaxTime
    /\ now' = now + 1
    /\ IF validate_identity(user, sender) # Ok
       THEN /\ call' = Call("send_message", sender, text, validate_identity(user, sender))
            /\ UNCHANGED message
       ELSE IF validate_message(text) # Ok
       THEN /\ call' = Call("send_message", sender, text, validate_message(text))
            /\ UNCHANGED message
       ELSE /\ message' = Append(message, NewMessage(sender, text, now))
            /\ call' = Call("send_message", sender, text, Ok)
    /\ scenario' = Scenario("send_message", sender, text)
    /\ UNCHANGED <<user, published, open>>

client_connected(sender) ==
    /\ published
    /\ now < MaxTime
    /\ now' = now + 1
    /\ LET found == find(user, sender) IN
       IF found # None
       THEN user' = update(user, ConnectedUser(found[1]))
       ELSE user' = insert(user, NewUser(sender))
    /\ call' = Call("client_connected", sender, "", Ok)
    /\ open' = Opened(sender)
    /\ scenario' = Scenario("client_connected", sender, "")
    /\ UNCHANGED <<message, published>>

\* variant: a disconnect of an unknown identity creates its (offline) row
identity_disconnected_upsert(sender) ==
    /\ published
    /\ now < MaxTime
    /\ now' = now + 1
    /\ LET found == find(user, sender) IN
       IF found # None
       THEN user' = update(user, DisconnectedUser(found[1]))
       ELSE user' = insert(user, DisconnectedUser(NewUser(sender)))
    /\ call' = Call("identity_disconnected", sender, "", Ok)
    /\ open' = Closed(sender)
    /\ scenario' = Scenario("identity_disconnected", sender, "")
    /\ UNCHANGED <<message, published>>

identity_disconnected(sender) ==
    /\ published
    /\ now < MaxTime
    /\ now' = now + 1
    /\ LET found == find(user, sender) IN
       IF found # None
       THEN user' = update(user, DisconnectedUser(found[1]))
       ELSE UNCHANGED user
    /\ call' = Call("identity_disconnected", sender, "", Ok)
    /\ open' = Closed(sender)
    /\ scenario' = Scenario("identity_disconnected", sender, "")
    /\ UNCHANGED <<message, published>>

Next ==
    \/ \E sender \in Identity : init(sender)
    \/ \E sender \in Identity, name \in String : set_name(sender, name)
    \/ \E sender \in Identity, text \in String : send_message(sender, text)
    \/ \E sender \in Identity : client_connected(sender)
    \/ \E sender \in Identity : identity_disconnected(sender)

Spec == Init /\ [][Next]_vars

\* identity_disconnected as a correct transport invokes it: only for an
\* identity that has a connection open
transport_disconnected(sender) ==
    /\ open[sender] > 0
    /\ identity_disconnected(sender)

\* The same reducers under that transport
TransportNext ==
    \/ \E sender \in Identity : init(sender)
    \/ \E sender \in Identity, name \in String : set_name(sender, name)
    \/ \E sender \in Identity, text \in String : send_message(sender, text)
    \/ \E sender \in Identity : client_connected(sender)
    \/ \E sender \in Identity : transport_disconnected(sender)

SpecTransport == Init /\ [][TransportNext]_vars

TypeOK ==
    /\ now \in 0..MaxTime
    /\ published \in BOOLEAN
    /\ \A r \in user : r.identity \in Identity /\ r.online \in BOOLEAN
    /\ Len(message) <= now
    /\ \A id \in Identity : open[id] \in (0 - MaxTime)..MaxTime
    /\ scenario.step \in (0 - 1)..4

\* ======================================================================
\* Properties
\* ======================================================================

\* The administrator's identity, byte by byte (c2 00 95 46 ... 05 3f)
AdminBytes ==
    << 194, 0, 149, 70, 182, 46, 139, 246, 42, 75, 19, 135, 102, 72, 66, 197,
       72, 33, 245, 98, 20, 230, 230, 137, 112, 33, 9, 31, 63, 90, 5, 63 >>

\* C1: in every reachable state the only User row with authorized = TRUE is
\* the bootstrap administrator's, and no step changes the authorized flag of
\* a User row that already exists.
C1_AuthorizationNeverGranted ==
    /\ [](\A r \in user : r.authorized => r.identity = AdminBytes)
    /\ [][\A r \in user : \A q \in user' :
             q.identity = r.identity => q.authorized = r.authorized]_vars

\* A client row exists next to the administrator's and that client has just
\* called set_name.
C1_Witness ==
    /\ call.reducer = "set_name"
    /\ \E r \in user : r.identity = call.sender /\ ~r.authorized
    /\ \E r \in user : r.authorized /\ ~r.online

\* C2: send_message answers by the three-way gate, in this order: no User row
\* -> unknown caller; row with authorized = FALSE -> unauthorized caller (both
\* whatever the text); authorized with empty text -> empty input; otherwise
\* success.  The three reasons are pairwise distinct.
C2_SendMessageGate ==
    [][call'.reducer = "send_message" =>
        LET rows == {r \in user : r.identity = call'.sender} IN
        /\ rows = {} => call'.result = Err(ErrUnknown)
        /\ (rows # {} /\ \E r \in rows : ~r.authorized)
              => call'.result = Err(ErrUnauthorized)
        /\ (rows # {} /\ (\A r \in rows : r.authorized) /\ call'.arg = "")
              => call'.result = Err(ErrEmptyMessage)
        /\ (rows # {} /\ (\A r \in rows : r.authorized) /\ call'.arg # "")
              => call'.result = Ok
        /\ ErrUnknown # ErrUnauthorized
        /\ ErrUnknown # ErrEmptyMessage
        /\ ErrUnauthorized # ErrEmptyMessage]_vars

\* An authorized caller sent the empty text and was refused for it.
C2_Witness ==
    /\ call.reducer = "send_message"
    /\ call.arg = ""
    /\ call.result = Err(ErrEmptyMessage)

\* C3: a successful send_message appends exactly one Message row (sender =
\* caller, sent = the call's timestamp, text = the argument, join flag TRUE)
\* and leaves the earlier Message rows and the User table as they were.
C3_SendMessageAppends ==
    [][(call'.reducer = "send_message" /\ call'.result = Ok) =>
        /\ Len(message') = Len(message) + 1
        /\ \A i \in 1..Len(message) : message'[i] = message[i]
        /\ message'[Len(message')] =
              [sender |-> call'.sender, sent |-> call'.timestamp,
               text |-> call'.arg, dummy_join |-> TRUE]
        /\ call'.timestamp = now
        /\ user' = user]_vars

\* A send_message succeeded on a table that already held a row.
C3_Witness ==
    /\ call.reducer = "send_message"
    /\ call.result = Ok
    /\ Len(message) >= 2

\* C4: set_name answers unknown caller when the caller has no row and
\* unauthorized caller when its row has authorized = FALSE, whatever the
\* name; for an authorized caller it answers empty input for "" and success
\* for every other name.
C4_SetNameGate ==
    [][call'.reducer = "set_name" =>
        LET rows == {r \in user : r.identity = call'.sender} IN
        /\ rows = {} => call'.result = Err(ErrUnknown)
        /\ (rows # {} /\ \E r \in rows : ~r.authorized)
              => call'.result = Err(ErrUnauthorized)
        /\ (rows # {} /\ (\A r \in rows : r.authorized) /\ call'.arg = "")
              => call'.result = Err(ErrEmptyName)
        /\ (rows # {} /\ (\A r \in rows : r.authorized) /\ call'.arg # "")
              => call'.result = Ok]_vars

\* A known, unauthorized caller proposed the empty name and was refused as
\* unauthorized.
C4_Witness ==
    /\ call.reducer = "set_name"
    /\ call.arg = ""
    /\ call.result = Err(ErrUnauthorized)

\* C5: a successful set_name changes only the name field of the caller's own
\* row, which becomes the proposed name; the other fields of that row, the
\* other rows, the number of rows and the Message table are unchanged.
C5_SetNameFrame ==
    [][(call'.reducer = "set_name" /\ call'.result = Ok) =>
        /\ \E r \in user :
              /\ r.identity = call'.sender
              /\ user' = (user \ {r}) \cup
                    {[identity |-> r.identity, name |-> Some(call'.arg),
                      online |-> r.online, authorized |-> r.authorized,
                      dummy_join |-> r.dummy_join]}
        /\ Cardinality(user') = Cardinality(user)
        /\ message' = message]_vars

\* An offline caller renamed itself while another row existed.
C5_Witness ==
    /\ call.reducer = "set_name"
    /\ call.result = Ok
    /\ \E r \in user :
          r.identity = call.sender /\ r.name = Some(call.arg) /\ ~r.online
    /\ Cardinality(user) >= 2

\* C6: a set_name or send_message that returns a failure leaves the User
\* table and the Message table exactly as they were.
C6_FailureCommitsNothing ==
    [][(call'.reducer \in {"set_name", "send_message"} /\ call'.result # Ok) =>
        (user' = user /\ message' = message)]_vars

\* An authorized caller's set_name was refused for the empty name.
C6_Witness ==
    /\ call.reducer = "set_name"
    /\ call.result = Err(ErrEmptyName)
    /\ \E r \in user : r.identity = call.sender /\ r.authorized

\* C7: after client_connected the caller has a row with online = TRUE; after
\* identity_disconnected the caller's row (when it has one) has online =
\* FALSE; a row the caller already had keeps its identity, name and
\* authorized flag under both, and neither changes another identity's row or
\* the Message table.
C7_PresenceFrame ==
    [][call'.reducer \in {"client_connected", "identity_disconnected"} =>
        /\ call'.reducer = "client_connected" =>
              /\ \E q \in user' : q.identity = call'.sender
              /\ \A q \in user' : q.identity = call'.sender => q.online
        /\ call'.reducer = "identity_disconnected" =>
              \A q \in user' : q.identity = call'.sender => ~q.online
        /\ \A r \in user : r.identity = call'.sender =>
              /\ \E q \in user' : q.identity = r.identity
              /\ \A q \in user' : q.identity = r.identity =>
                    q.name = r.name /\ q.authorized = r.authorized
        /\ {r \in user : r.identity # call'.sender}
              = {q \in user' : q.identity # call'.sender}
        /\ message' = message]_vars

\* A named user reconnected while another identity's row existed.
C7_Witness ==
    /\ call.reducer = "client_connected"
    /\ \E r \in user : r.identity = call.sender /\ r.name # None /\ r.online
    /\ \E r \in user : r.identity # call.sender

\* C8: client_connected for an identity without a row adds exactly one row,
\* that identity's, with authorized = FALSE, online = TRUE, name = None and
\* join flag TRUE; for an identity that has a row it adds none.
C8_ConnectCreatesOneRow ==
    [][call'.reducer = "client_connected" =>
        IF \E r \in user : r.identity = call'.sender
        THEN /\ Cardinality(user') = Cardinality(user)
             /\ {q.identity : q \in user'} = {r.identity : r \in user}
        ELSE /\ user' = user \cup
                   {[identity |-> call'.sender, name |-> None, online |-> TRUE,
                     authorized |-> FALSE, dummy_join |-> TRUE]}
             /\ Cardinality(user') = Cardinality(user) + 1]_vars

\* Both connects after bootstrap were first connects: each created a row.
C8_Witness ==
    /\ call.reducer = "client_connected"
    /\ now = 3
    /\ Cardinality(user) = 3

\* C9: identity_disconnected for an identity without a row leaves both tables
\* unchanged, and identity_disconnected never increases the number of rows.
C9_DisconnectNeverInserts ==
    [][call'.reducer = "identity_disconnected" =>
        /\ (~\E r \in user : r.identity = call'.sender) =>
              (user' = user /\ message' = message)
        /\ Cardinality(user') <= Cardinality(user)]_vars

\* An identity that never connected has just disconnected.
C9_Witness ==
    /\ call.reducer = "identity_disconnected"
    /\ ~\E r \in user : r.identity = call.sender
    /\ user # {}

\* C10: right after bootstrap the store holds exactly one User row, the
\* administrator's (authorized, online, unnamed), and no Message row.
C10_Bootstrap ==
    call.reducer = "init" =>
        /\ user = {[identity |-> AdminBytes, name |-> None, online |-> TRUE,
                    authorized |-> TRUE, dummy_join |-> TRUE]}
        /\ Cardinality(user) = 1
        /\ message = << >>

\* The init reducer has run and nothing else has.
C10_Witness ==
    /\ call.reducer = "init"
    /\ published
    /\ now = 1

\* C11: for every observer, the message filter selects no Message row when
\* the observer has no authorized User row (unauthorized or without a row),
\* and selects every Message row exactly once when the observer's row is
\* authorized; the message's sender is not consulted.
C11_MessageVisibility ==
    \A o \in Identity :
        LET seen == MESSAGE_FILTER(user, message, o) IN
        /\ DOMAIN seen = 1..Len(message)
        /\ \A i \in 1..Len(message) :
              seen[i] = IF \E r \in user : r.identity = o /\ r.authorized
                        THEN 1 ELSE 0

\* Two messages exist, with an unauthorized observer and one without a row.
C11_Witness ==
    /\ Len(message) >= 2
    /\ \E r \in user : ~r.authorized
    /\ \E o \in Identity : ~\E r \in user : r.identity = o

\* C12: for every observer, the user filter selects exactly the User row of
\* the observer's identity: one row when the observer has a row, none
\* otherwise, and never a row of another identity.
C12_UserVisibility ==
    \A o \in Identity :
        LET seen == ACCOUNT_FILTER(user, o) IN
        /\ seen \subseteq user
        /\ \A r \in seen : r.identity = o
        /\ Cardinality(seen) = IF \E r \in user : r.identity = o THEN 1 ELSE 0

\* Three rows exist: an offline administrator and two clients, one offline.
C12_Witness ==
    /\ Cardinality(user) = 3
    /\ \E r \in user : r.authorized /\ ~r.online
    /\ \E r \in user : ~r.authorized /\ ~r.online
    /\ \E r \in user : ~r.authorized /\ r.online

\* C13: there is at most one User row per identity in every reachable state,
\* and no step removes the row of an identity that has one.
C13_OneRowPerIdentity ==
    /\ [](\A r, q \in user : r.identity = q.identity => r = q)
    /\ [][\A r \in user : \E q \in user' : q.identity = r.identity]_vars

\* The administrator connected after bootstrap while a client that had
\* connected and disconnected has its row.
C13_Witness ==
    /\ call.reducer = "client_connected"
    /\ call.sender = AdminBytes
    /\ \E r \in user : r.identity # AdminBytes /\ ~r.online

\* C14: every Message row has a non-empty text.
C14_TextNeverEmpty ==
    \A i \in 1..Len(message) : message[i].text # ""

\* A message exists and the authorized sender has just tried the empty text.
C14_Witness ==
    /\ Len(message) >= 1
    /\ call.reducer = "send_message"
    /\ call.arg = ""
    /\ \E r \in user : r.identity = call.sender /\ r.authorized

\* C15: the Message table is append-only: every step keeps every Message row
\* as it was, and only a successful send_message adds a row.
C15_AppendOnly ==
    [][/\ Len(message') >= Len(message)
       /\ \A i \in 1..Len(message) : message'[i] = message[i]
       /\ Len(message') # Len(message) =>
             (call'.reducer = "send_message" /\ call'.result = Ok)]_vars

\* With two messages stored, a client's send_message has just failed.
C15_Witness ==
    /\ Len(message) >= 2
    /\ call.reducer = "send_message"
    /\ call.result = Err(ErrUnknown)

\* C16: in the run bootstrap, B connects, B sends "hi", the administrator A
\* sends "hello": B's call fails as unauthorized and inserts nothing; A's
\* call succeeds; the store then holds exactly one Message row (sender A,
\* text "hello"), which the message filter selects for A and not for B.
C16_EndToEnd ==
    /\ scenario.step = 3 =>
          /\ call.sender = scenario.B
          /\ call.result = Err(ErrUnauthorized)
          /\ message = << >>
    /\ scenario.step = 4 =>
          /\ call.sender = AdminBytes
          /\ call.result = Ok
          /\ Len(message) = 1
          /\ message[1].sender = AdminBytes
          /\ message[1].text = "hello"
          /\ scenario.B # AdminBytes
          /\ \E r \in user : r.identity = scenario.B /\ ~r.authorized
          /\ MESSAGE_FILTER(user, message, scenario.B) = <<0>>
          /\ MESSAGE_FILTER(user, message, AdminBytes) = <<1>>

\* The scenario has been run to its end.
C16_Witness ==
    /\ scenario.step = 4
    /\ now = 4

\* C17: every Message row's sender is the identity of an existing User row.
C17_NoOrphanSender ==
    \A i \in 1..Len(message) : \E r \in user : r.identity = message[i].sender

\* A message exists while a caller without a row has just tried to send one.
C17_Witness ==
    /\ Len(message) >= 1
    /\ call.reducer = "send_message"
    /\ call.arg # ""
    /\ ~\E r \in user : r.identity = call.sender

\* C18: every Message row's sender is the administrator, whose row is
\* authorized, and every User row other than the administrator's has
\* name = None.
C18_OnlyAdministratorActs ==
    /\ \A i \in 1..Len(message) :
          /\ message[i].sender = AdminBytes
          /\ \E r \in user : r.identity = message[i].sender /\ r.authorized
    /\ \A r \in user : r.identity # AdminBytes => r.name = None

\* A message exists, the administrator is named, and a client's set_name of a
\* non-empty name has just been refused.
C18_Witness ==
    /\ Len(message) >= 1
    /\ \E r \in user : r.identity = AdminBytes /\ r.name # None
    /\ call.reducer = "set_name"
    /\ call.arg # ""
    /\ call.result = Err(ErrUnauthorized)

\* C19: an identity with at least one open connection (more connects than
\* disconnects so far) has a User row with online = TRUE.
C19_OnlineWhileConnected ==
    \A id \in Identity :
        open[id] > 0 => \E r \in user : r.identity = id /\ r.online

\* C20: set_name never returns "Cannot set name for unknown user"; a caller
\* without a row gets the reason of validate_identity.
C20_SecondLookupFinds ==
    [][call'.reducer = "set_name" =>
        /\ call'.result # Err(ErrSetNameUnknown)
        /\ (~\E r \in user : r.identity = call'.sender) =>
              call'.result = Err(ErrUnknown)]_vars

\* A set_name has succeeded earlier and a caller without a row has just been
\* refused.
C20_Witness ==
    /\ call.reducer = "set_name"
    /\ call.result = Err(ErrUnknown)
    /\ \E r \in user : r.name # None

====
